---------------------------- MODULE Spec2Model ----------------------------
(***************************************************************************)
(* A model of src/src/nupic/experimental/GridUniqueness.cpp.               *)
(*                                                                         *)
(* Three specifications share the module's variables:                      *)
(*   Spec      the parallel uniqueness search computeGridUniquenessHyper-  *)
(*             cube: the scheduler's wait loop, the workers, recordResult  *)
(*             and claimNextTask (FairSpec adds the scheduling fairness);  *)
(*   EnumSpec  one LatticePointEnumerator object driven by getNext and     *)
(*             restart calls;                                              *)
(*   GeoSpec   the single-threaded point search findGridCodeZero and its   *)
(*             two probes, applied to bounded inputs.                      *)
(*                                                                         *)
(* Numbers.  The coordinates of the model are integers of a grid whose     *)
(* unit is a third of the probe's slack 1e-9 (Epsilon == 3).  The inverse  *)
(* of a lattice basis is computed in binary floating point, see below.     *)
(***************************************************************************)
EXTENDS Integers, Sequences, FiniteSets, TLC

(***************************************************************************)
(* Bounds of the model.                                                    *)
(***************************************************************************)
\* std::thread::hardware_concurrency() of the modelled machine
NumThreads == 2
\* numDims, the number of columns of every domainToPlane matrix
NumDims == 2
\* slabs claimed before the module geometry is taken to hold a witness
MaxClaims == 4

\* std::numeric_limits<double>::max()
DBL_MAX == 1000000

Threads == 0 .. (NumThreads - 1)
Dims == 0 .. (NumDims - 1)

ZeroVector == [d \in Dims |-> 0]

\* the argument ignoredCenterDiameter of the call
IgnoredCenterDiameter == 100

VARIABLES
  \* static std::atomic<bool> quitting
  quitting,
  \* GridUniquenessState: task management
  baselineRadius, expansionRadiusGoal, expansionProgress, expandingDim,
  positiveExpand, continueExpansion,
  \* GridUniquenessState: results
  pointWithGridCodeZero, foundPointBaselineRadius,
  \* GridUniquenessState: thread management
  numActiveThreads, threadBaselineRadius, threadQueryX0, threadQueryDims,
  threadShouldContinue, threadRunning,
  \* findGridCodeZeroThread: position and locals of each worker
  threadPc, foundGridCodeZero, threadPoint,
  \* computeGridUniquenessHypercube: position and locals of the scheduler
  schedPc, processingQuit, returned,
  \* history: the recordResult and claimNextTask calls, in lock order
  recordLog, claimLog,
  \* the number, in lock order, of the slab each worker claimed last (0: none)
  claimIndex,
  \* EnumSpec: a LatticePointEnumerator object (lpe), the points its getNext
  \* calls yielded since construction or the last restart, whether a getNext
  \* call returned false since then, and the first pass that ran to its end
  lpe, lpeOut, lpeDone, lpeFull,
  \* GeoSpec: the arguments of a call, the function called, what it returned,
  \* and the shouldContinue flag the call was given
  geoIn, geoCall, geoOut, geoFlag

schedVars == << quitting, baselineRadius, expansionRadiusGoal,
                expansionProgress, expandingDim, positiveExpand,
                continueExpansion, pointWithGridCodeZero,
                foundPointBaselineRadius, numActiveThreads,
                threadBaselineRadius, threadQueryX0, threadQueryDims,
                threadShouldContinue, threadRunning, threadPc,
                foundGridCodeZero, threadPoint,
                schedPc, processingQuit, returned, recordLog, claimLog,
                claimIndex >>

enumVars == << lpe, lpeOut, lpeDone, lpeFull >>

geoVars == << geoIn, geoCall, geoOut, geoFlag >>

\* what the steps of the uniqueness search leave alone
passiveVars == << enumVars, geoVars >>

vars == << schedVars, enumVars, geoVars >>

(***************************************************************************)
(* HyperrectangleVertexEnumerator                                          *)
(***************************************************************************)
Pow2(n) == 2 ^ n

\* bitvector_ & (0x1 << bit)
BitSet(bitvector, bit) == (bitvector \div Pow2(bit)) % 2 = 1

\* the vertex getNext writes for the value b of bitvector_
Vertex(x0, dims, b) ==
  [bit \in Dims |-> IF BitSet(b, bit) THEN x0[bit] + dims[bit] ELSE x0[bit]]

\* upper_ = pow(2, numDims)
NumVertices == Pow2(NumDims)

\* the vertices of a slab the model lets a worker's search return
WitnessVertices == {0, NumVertices - 1}

(***************************************************************************)
(* Arithmetic                                                              *)
(***************************************************************************)
\* the slack 0.000000001 of tryFindGridCodeZero, in grid units
Epsilon == 3

Abs(x) == IF x < 0 THEN -x ELSE x

\* std::min, std::max
Min2(a, b) == IF a < b THEN a ELSE b

Max2(a, b) == IF a > b THEN a ELSE b

SetMin(S) == CHOOSE a \in S : \A b \in S : a <= b

SetMax(S) == CHOOSE a \in S : \A b \in S : a >= b

\* floor and ceil of the fraction num / den, den > 0
Floor(num, den) == num \div den

Ceil(num, den) == -((-num) \div den)

\* pow(a.first - b.first, 2) + pow(a.second - b.second, 2)
Dist2(a, b) == (a[1] - b[1]) * (a[1] - b[1]) + (a[2] - b[2]) * (a[2] - b[2])

(***************************************************************************)
(* The doubles.  The inputs of the model are integers, and every double    *)
(* operation on them is exact except the ones that involve the inverse of  *)
(* a lattice basis: the reciprocal of the determinant, its products with   *)
(* the entries of the basis, and the products and sums of transform2D.     *)
(* These are rounded to the nearest number of MantissaBits significant     *)
(* bits, ties to even, as IEEE 754 rounds to 53 bits.  A number of the     *)
(* inverse is an integer count of the unit 2^-FractionBits; rounding to    *)
(* significant bits does not depend on the unit, so RoundToNearest is the  *)
(* same operator on plain integers, which it leaves alone below            *)
(* 2^MantissaBits.                                                         *)
(***************************************************************************)
\* significant bits of the floating-point format
MantissaBits == 17

\* determinants stay below 2^7
FractionBits == MantissaBits + 7

One == 2 ^ FractionBits

Sign(v) == IF v < 0 THEN -1 ELSE 1

\* q + rest / whole, rounded to the nearest integer, ties to even
HalfEven(q, rest, whole) ==
  IF 2 * rest > whole \/ (2 * rest = whole /\ q % 2 = 1) THEN q + 1 ELSE q

\* the weight of the last bit kept of a >= 2^MantissaBits
LastBit(a) ==
  2 ^ (CHOOSE s \in 1 .. (30 - MantissaBits) :
         /\ 2 ^ (MantissaBits + s - 1) <= a
         /\ a < 2 ^ (MantissaBits + s))

RoundMagnitude(a, unit) == HalfEven(a \div unit, a % unit, unit) * unit

RoundToNearest(v) ==
  IF Abs(v) < 2 ^ MantissaBits
    THEN v
    ELSE Sign(v) * RoundMagnitude(Abs(v), LastBit(Abs(v)))

\* the places the binary point of 1 / a is moved to get a full mantissa
Shift(a) ==
  CHOOSE e \in 0 .. FractionBits :
    /\ 2 ^ e >= a * 2 ^ (MantissaBits - 1)
    /\ e > 0 => 2 ^ (e - 1) < a * 2 ^ (MantissaBits - 1)

ReciprocalOfMagnitude(a, k) ==
  HalfEven((2 ^ k) \div a, (2 ^ k) % a, a) * 2 ^ (FractionBits - k)

\* 1 / det, in units of 2^-FractionBits
Reciprocal(det) == Sign(det) * ReciprocalOfMagnitude(Abs(det), Shift(Abs(det)))

(***************************************************************************)
(* transform2D, invert2DMatrix, transformND.  A 2x2 matrix is a pair of    *)
(* rows; a domainToPlane matrix is a pair of rows indexed by Dims.         *)
(***************************************************************************)
transform2D(M, p) ==
  << RoundToNearest(RoundToNearest(M[1][1] * p[1])
                    + RoundToNearest(M[1][2] * p[2])),
     RoundToNearest(RoundToNearest(M[2][1] * p[1])
                    + RoundToNearest(M[2][2] * p[2])) >>

Det(M) == M[1][1] * M[2][2] - M[1][2] * M[2][1]

\* the entries of the result are in units of 2^-FractionBits
invert2DMatrix(M) ==
  LET detInv == Reciprocal(Det(M))
  IN  << << RoundToNearest(detInv * M[2][2]),
            RoundToNearest(-detInv * M[1][2]) >>,
         << RoundToNearest(-detInv * M[2][1]),
            RoundToNearest(detInv * M[1][1]) >> >>

RECURSIVE RowTimes(_, _, _)
\* the sum over col < n of row[col] * p[col]
RowTimes(row, p, n) ==
  IF n = 0 THEN 0 ELSE RowTimes(row, p, n - 1) + row[n - 1] * p[n - 1]

transformND(M, p) == << RowTimes(M[1], p, NumDims), RowTimes(M[2], p, NumDims) >>

(***************************************************************************)
(* LatticePointEnumerator                                                  *)
(***************************************************************************)
\* the four points handed to updateBoundingBox_
RectangleCorners(x0, y0, width, height) ==
  { << x0, y0 >>, << x0 + width, y0 >>, << x0, y0 + height >>,
    << x0 + width, y0 + height >> }

\* the constructor
LatticePointEnumerator(latticeBasis, inverseLatticeBasis, x0, y0, width, height) ==
  LET q == { transform2D(inverseLatticeBasis, c) :
               c \in RectangleCorners(x0, y0, width, height) }
      imin == Ceil(SetMin({ c[1] : c \in q }), One)
      jmin == Ceil(SetMin({ c[2] : c \in q }), One)
  IN  [latticeBasis |-> latticeBasis,
       x0 |-> x0, y0 |-> y0, width |-> width, height |-> height,
       imin |-> imin, imax |-> Floor(SetMax({ c[1] : c \in q }), One),
       jmin |-> jmin, jmax |-> Floor(SetMax({ c[2] : c \in q }), One),
       i |-> imin, j |-> jmin]

\* the test of lines 123-124
InRectangle(e, p) ==
  /\ p[1] >= e.x0 /\ p[1] <= e.x0 + e.width
  /\ p[2] >= e.y0 /\ p[2] <= e.y0 + e.height

RECURSIVE getNext(_)
\* one call of getNext on the enumerator e: what it returns, the point it
\* writes to *out when it returns true, and the enumerator after the call
getNext(e) ==
  IF e.i > e.imax
    THEN [found |-> FALSE, out |-> << 0, 0 >>, e |-> e]
  ELSE IF e.j > e.jmax
    THEN getNext([e EXCEPT !.i = e.i + 1, !.j = e.jmin])
  ELSE LET p == transform2D(e.latticeBasis, << e.i, e.j >>)
           after == IF e.j + 1 > e.jmax
                      THEN [e EXCEPT !.i = e.i + 1, !.j = e.jmin]
                      ELSE [e EXCEPT !.j = e.j + 1]
       IN  IF InRectangle(e, p)
             THEN [found |-> TRUE, out |-> p, e |-> after]
             ELSE getNext(after)

\* restart
restart(e) == [e EXCEPT !.i = e.imin, !.j = e.jmin]

RECURSIVE RemainingPoints(_)
\* the points the calls of getNext yield until one returns false
RemainingPoints(e) ==
  LET r == getNext(e)
  IN  IF r.found THEN << r.out >> \o RemainingPoints(r.e) ELSE << >>

(***************************************************************************)
(* tryFindGridCodeZero.  The argument M holds the three ...ByModule        *)
(* arguments of the source, each a sequence with one entry per module;     *)
(* readoutResolution is even, so its half is a grid number.                *)
(***************************************************************************)
\* a mutant of ExistenceRadius: the slack is left out
ExistenceRadiusNoSlack(readoutResolution) == readoutResolution \div 2

\* line 243: r = readoutResolution/2 + 0.000000001
ExistenceRadius(readoutResolution) == readoutResolution \div 2 + Epsilon

NumModules(M) == Len(M.domainToPlaneByModule)

\* lines 256-259 and 320-324: the enumerator of module iModule over a rectangle
LatticePoints(M, iModule, x0, y0, width, height) ==
  LatticePointEnumerator(M.latticeBasisByModule[iModule],
                         M.inverseLatticeBasisByModule[iModule],
                         x0, y0, width, height)

\* lines 253-268: isZero after the loop over the lattice points of a module
IsZero(M, iModule, vertex, r) ==
  LET pointOnPlane == transformND(M.domainToPlaneByModule[iModule], vertex)
      latticePoints ==
        RemainingPoints(LatticePoints(M, iModule, pointOnPlane[1] - r,
                                      pointOnPlane[2] - r, 2 * r, 2 * r))
  IN  \E k \in 1 .. Len(latticePoints) :
        Dist2(latticePoints[k], pointOnPlane) <= r * r

\* lines 249-276: no module disqualifies the vertex
VertexQualifies(M, vertex, r) ==
  \A iModule \in 1 .. NumModules(M) : IsZero(M, iModule, vertex, r)

RECURSIVE tryFindFromVertex(_, _, _, _, _)
\* the loop of lines 247-281 from the value b of the vertex enumerator on
tryFindFromVertex(M, x0, dims, r, b) ==
  IF VertexQualifies(M, Vertex(x0, dims, b), r)
    THEN [found |-> TRUE, vertexBuffer |-> Vertex(x0, dims, b)]
  ELSE IF b + 1 >= NumVertices
    THEN [found |-> FALSE, vertexBuffer |-> Vertex(x0, dims, b)]
  ELSE tryFindFromVertex(M, x0, dims, r, b + 1)

\* what the call returns and what it leaves in vertexBuffer
tryFindGridCodeZero(M, x0, dims, readoutResolution) ==
  tryFindFromVertex(M, x0, dims, ExistenceRadius(readoutResolution), 0)

(***************************************************************************)
(* tryProveGridCodeZeroImpossible                                          *)
(***************************************************************************)
\* lines 303-316: the bounding box of the images of the vertices
PhaseBoundingBox(domainToPlane, x0, dims) ==
  LET phases == { transformND(domainToPlane, Vertex(x0, dims, b)) :
                    b \in 0 .. (NumVertices - 1) }
  IN  [xmin |-> SetMin({ p[1] : p \in phases }),
       xmax |-> SetMax({ p[1] : p \in phases }),
       ymin |-> SetMin({ p[2] : p \in phases }),
       ymax |-> SetMax({ p[2] : p \in phases })]

\* lines 333-341: the circle around latticePoint overlaps the bounding box
CircleOverlaps(latticePoint, box, r) ==
  LET nearestX == Max2(box.xmin, Min2(latticePoint[1], box.xmax))
      nearestY == Max2(box.ymin, Min2(latticePoint[2], box.ymax))
  IN  Dist2(latticePoint, << nearestX, nearestY >>) < r * r

\* lines 318-345: foundLatticeCollision after the loop
FoundLatticeCollision(M, iModule, x0, dims, r) ==
  LET box == PhaseBoundingBox(M.domainToPlaneByModule[iModule], x0, dims)
      latticePoints ==
        RemainingPoints(LatticePoints(M, iModule, box.xmin - r, box.ymin - r,
                                      (box.xmax - box.xmin) + 2 * r,
                                      (box.ymax - box.ymin) + 2 * r))
  IN  \E k \in 1 .. Len(latticePoints) :
        CircleOverlaps(latticePoints[k], box, r)

\* what the call returns and what it leaves in vertexBuffer: every module
\* it looks at runs the vertex enumerator to its end
tryProveGridCodeZeroImpossible(M, x0, dims, readoutResolution) ==
  [impossible |->
     \E iModule \in 1 .. NumModules(M) :
       ~FoundLatticeCollision(M, iModule, x0, dims, readoutResolution \div 2),
   vertexBuffer |-> Vertex(x0, dims, NumVertices - 1)]

(***************************************************************************)
(* findGridCodeZeroHelper and findGridCodeZero.  A call returns the        *)
(* boolean and leaves x0, dims and vertexBuffer as the record says.  The   *)
(* field exact is false when a recursion halved an odd width, which the    *)
(* grid cannot represent.                                                  *)
(***************************************************************************)
\* a mutant of iWidestDim: the first dimension is split whatever its width
iWidestDimFirst(dims) == 0

\* line 415-416: std::max_element returns the first of the widest
iWidestDim(dims) ==
  CHOOSE d \in Dims :
    /\ \A e \in Dims : dims[e] <= dims[d]
    /\ \A e \in Dims : e < d => dims[e] < dims[d]

\* SwapValueRAII(&array[index], newValue): *value_ = newValue
SwapValue(array, index, newValue) == [array EXCEPT ![index] = newValue]

\* a mutant of RestoreValue: the destructor leaves the new value in place
RestoreValueNever(array, index, initial) == array

\* ~SwapValueRAII(): *value_ = initial_
RestoreValue(array, index, initial) == [array EXCEPT ![index] = initial]

\* std::atomic<bool>& shouldContinue is held as the number of loads of it
\* that still return true before another thread clears it; NeverCleared is
\* a flag that stays true
NeverCleared == -1

\* line 395: the value loaded
Load(shouldContinue) == shouldContinue # 0

\* the flag after one more load of it
AfterLoad(shouldContinue) ==
  IF shouldContinue > 0 THEN shouldContinue - 1 ELSE shouldContinue

\* what a call of findGridCodeZeroHelper returns and leaves behind
Returned(found, x0, dims, vertexBuffer, exact, shouldContinue) ==
  [found |-> found, x0 |-> x0, dims |-> dims, vertexBuffer |-> vertexBuffer,
   exact |-> exact, shouldContinue |-> shouldContinue]

RECURSIVE findGridCodeZeroHelper(_, _, _, _, _, _)

\* lines 427-433: swap2, the call on the second half (its outcome is the
\* argument second), then ~SwapValueRAII of swap2 and of swap1
AfterSecondHalf(w, x0w, width, exact, second) ==
  Returned(second.found, RestoreValue(second.x0, w, x0w),
           RestoreValue(second.dims, w, width), second.vertexBuffer,
           exact /\ second.exact, second.shouldContinue)

\* lines 420-433: the outcome first of the call on the first half; on true
\* ~SwapValueRAII of swap1, on false the second half
AfterFirstHalf(M, w, width, readoutResolution, first) ==
  IF first.found
    THEN [first EXCEPT !.dims = RestoreValue(first.dims, w, width)]
    ELSE AfterSecondHalf(
           w, first.x0[w], width, first.exact,
           findGridCodeZeroHelper(
             M, SwapValue(first.x0, w, first.x0[w] + first.dims[w]),
             first.dims, readoutResolution, first.vertexBuffer,
             first.shouldContinue))

\* lines 415-434: the split of the dimension w; swap1 halves dims[w]
SplitWidest(M, x0, dims, readoutResolution, vertexBuffer, shouldContinue, w) ==
  IF dims[w] % 2 # 0
    THEN Returned(FALSE, x0, dims, vertexBuffer, FALSE, shouldContinue)
    ELSE AfterFirstHalf(
           M, w, dims[w], readoutResolution,
           findGridCodeZeroHelper(M, x0, SwapValue(dims, w, dims[w] \div 2),
                                  readoutResolution, vertexBuffer,
                                  shouldContinue))

\* lines 407-434: prove is what tryProveGridCodeZeroImpossible answered
AfterProve(M, x0, dims, readoutResolution, shouldContinue, prove) ==
  IF prove.impossible
    THEN Returned(FALSE, x0, dims, prove.vertexBuffer, TRUE, shouldContinue)
    ELSE SplitWidest(M, x0, dims, readoutResolution, prove.vertexBuffer,
                     shouldContinue, iWidestDim(dims))

\* lines 400-434: find is what tryFindGridCodeZero answered
AfterFind(M, x0, dims, readoutResolution, shouldContinue, find) ==
  IF find.found
    THEN Returned(TRUE, x0, dims, find.vertexBuffer, TRUE, shouldContinue)
    ELSE AfterProve(M, x0, dims, readoutResolution, shouldContinue,
                    tryProveGridCodeZeroImpossible(M, x0, dims,
                                                   readoutResolution))

findGridCodeZeroHelper(M, x0, dims, readoutResolution, vertexBuffer, shouldContinue) ==
  IF ~Load(shouldContinue)
    THEN Returned(FALSE, x0, dims, vertexBuffer, TRUE, shouldContinue)
    ELSE AfterFind(M, x0, dims, readoutResolution, AfterLoad(shouldContinue),
                   tryFindGridCodeZero(M, x0, dims, readoutResolution))

\* lines 464-468
InverseLatticeBasisByModule(latticeBasisByModule) ==
  [iModule \in 1 .. Len(latticeBasisByModule) |->
     invert2DMatrix(latticeBasisByModule[iModule])]

ModuleArguments(domainToPlaneByModule, latticeBasisByModule) ==
  [domainToPlaneByModule |-> domainToPlaneByModule,
   latticeBasisByModule |-> latticeBasisByModule,
   inverseLatticeBasisByModule |->
     InverseLatticeBasisByModule(latticeBasisByModule)]

\* the caller's pointWithGridCodeZero holds zeros before the call
findGridCodeZero(domainToPlaneByModule, latticeBasisByModule, x0, dims, readoutResolution) ==
  findGridCodeZeroHelper(
    ModuleArguments(domainToPlaneByModule, latticeBasisByModule),
    x0, dims, readoutResolution, ZeroVector, NeverCleared)

(***************************************************************************)
(* computeGridUniquenessHypercube: the state built at lines 695-725 and    *)
(* the workers spawned under the lock; the scheduler is at its first       *)
(* wait_until.                                                             *)
(***************************************************************************)
SchedInitFor(ignoredCenterDiameter) ==
  /\ quitting = FALSE
  /\ baselineRadius = ignoredCenterDiameter
  /\ expansionRadiusGoal = ignoredCenterDiameter * 2
  /\ expansionProgress = [d \in Dims |-> ignoredCenterDiameter]
  /\ expandingDim = 0
  /\ positiveExpand = TRUE
  /\ continueExpansion = TRUE
  /\ pointWithGridCodeZero = ZeroVector
  /\ foundPointBaselineRadius = DBL_MAX
  /\ numActiveThreads = NumThreads
  /\ threadBaselineRadius = [t \in Threads |-> DBL_MAX]
  /\ threadQueryX0 = [t \in Threads |-> ZeroVector]
  /\ threadQueryDims = [t \in Threads |-> ZeroVector]
  /\ threadShouldContinue = [t \in Threads |-> TRUE]
  /\ threadRunning = [t \in Threads |-> TRUE]
  /\ threadPc = [t \in Threads |-> "top"]
  /\ foundGridCodeZero = [t \in Threads |-> FALSE]
  /\ threadPoint = [t \in Threads |-> ZeroVector]
  /\ schedPc = "wait"
  /\ processingQuit = FALSE
  /\ returned = << >>
  /\ recordLog = << >>
  /\ claimLog = << >>
  /\ claimIndex = [t \in Threads |-> 0]

SchedInit == SchedInitFor(IgnoredCenterDiameter)

(***************************************************************************)
(* recordResult                                                            *)
(***************************************************************************)
\* a mutant of BetterBaseline: an equal baseline also replaces the witness
BetterBaselineOrEqual(threadBaseline, foundBaseline) ==
  threadBaseline <= foundBaseline

\* a mutant of BetterBaseline: every recorded witness replaces the stored one
BetterBaselineAlways(threadBaseline, foundBaseline) == TRUE

\* state.threadBaselineRadius[iThread] < state.foundPointBaselineRadius
BetterBaseline(threadBaseline, foundBaseline) ==
  threadBaseline < foundBaseline

\* the condition under which recordResult clears another worker's flag
StopsOther(iThread, iOtherThread, found) ==
  /\ iOtherThread # iThread
  /\ threadShouldContinue[iOtherThread]
  /\ threadBaselineRadius[iOtherThread] >= found

\* a mutant of ExpansionAfterResult: the expansion goes on after a witness
ExpansionAfterResultKept(expansion) == expansion

\* line 530: state.continueExpansion = false
ExpansionAfterResult(expansion) == FALSE

recordResult(iThread, point) ==
  /\ continueExpansion' = ExpansionAfterResult(continueExpansion)
  /\ recordLog' = Append(recordLog,
                         [thread |-> iThread,
                          baseline |-> threadBaselineRadius[iThread],
                          point |-> point])
  /\ IF BetterBaseline(threadBaselineRadius[iThread], foundPointBaselineRadius)
       THEN /\ foundPointBaselineRadius' = threadBaselineRadius[iThread]
            /\ pointWithGridCodeZero' = point
            /\ threadShouldContinue' =
                 [o \in Threads |->
                    IF StopsOther(iThread, o, threadBaselineRadius[iThread])
                      THEN FALSE ELSE threadShouldContinue[o]]
       ELSE UNCHANGED << foundPointBaselineRadius, pointWithGridCodeZero,
                         threadShouldContinue >>

(***************************************************************************)
(* claimNextTask                                                           *)
(***************************************************************************)
\* state.expansionRadiusGoal *= 1.01, rounded to the grid
NextGoal(goal) == (goal * 101) \div 100

\* the x0 and dims written to threadQueryX0[iThread], threadQueryDims[iThread]
QueryDims ==
  [d \in Dims |->
     IF d = expandingDim THEN expansionRadiusGoal - baselineRadius
     ELSE IF d = NumDims - 1 THEN expansionProgress[d]
     ELSE 2 * expansionProgress[d]]

\* a mutant of QueryX0: every axis but the expanding one starts at 0
QueryX0FromZero ==
  [d \in Dims |->
     IF d = expandingDim
       THEN (IF positiveExpand THEN baselineRadius ELSE -expansionRadiusGoal)
     ELSE 0]

QueryX0 ==
  [d \in Dims |->
     IF d = expandingDim
       THEN (IF positiveExpand THEN baselineRadius ELSE -expansionRadiusGoal)
     ELSE IF d = NumDims - 1 THEN 0
     ELSE -expansionProgress[d]]

\* a mutant of NegativeSlabFollows: the final dimension is treated like the
\* others
NegativeSlabFollowsAlways(positive, dim) == positive

\* a mutant of NegativeSlabFollows: progress is advanced after every slab
NegativeSlabFollowsNever(positive, dim) == FALSE

\* lines 580-583: the slab claimed now is a positive one and its negative
\* counterpart comes next
NegativeSlabFollows(positive, dim) == positive /\ dim < NumDims - 1

claimNextTask(iThread) ==
  /\ threadBaselineRadius' =
       [threadBaselineRadius EXCEPT ![iThread] = baselineRadius]
  /\ threadQueryX0' = [threadQueryX0 EXCEPT ![iThread] = QueryX0]
  /\ threadQueryDims' = [threadQueryDims EXCEPT ![iThread] = QueryDims]
  /\ claimLog' = Append(claimLog,
                        [baseline |-> baselineRadius,
                         goal |-> expansionRadiusGoal, dim |-> expandingDim,
                         positive |-> positiveExpand,
                         x0 |-> QueryX0, dims |-> QueryDims])
  /\ claimIndex' = [claimIndex EXCEPT ![iThread] = Len(claimLog) + 1]
  /\ IF NegativeSlabFollows(positiveExpand, expandingDim)
       THEN /\ positiveExpand' = FALSE
            /\ UNCHANGED << expansionProgress, expandingDim, baselineRadius,
                            expansionRadiusGoal >>
       ELSE /\ positiveExpand' = TRUE
            /\ expansionProgress' =
                 [expansionProgress EXCEPT ![expandingDim] = expansionRadiusGoal]
            /\ IF expandingDim + 1 >= NumDims
                 THEN /\ baselineRadius' = expansionRadiusGoal
                      /\ expansionRadiusGoal' = NextGoal(expansionRadiusGoal)
                      /\ expandingDim' = 0
                 ELSE /\ expandingDim' = expandingDim + 1
                      /\ UNCHANGED << baselineRadius, expansionRadiusGoal >>

(***************************************************************************)
(* findGridCodeZeroThread                                                  *)
(***************************************************************************)
\* line 607: while (!quitting)
WorkerLoopTest(t) ==
  /\ threadPc[t] = "top"
  /\ threadPc' = [threadPc EXCEPT ![t] = IF quitting THEN "exit" ELSE "lock"]
  /\ UNCHANGED << quitting, baselineRadius, expansionRadiusGoal,
                  expansionProgress, expandingDim, positiveExpand,
                  continueExpansion, pointWithGridCodeZero,
                  foundPointBaselineRadius, numActiveThreads,
                  threadBaselineRadius, threadQueryX0, threadQueryDims,
                  threadShouldContinue, threadRunning, foundGridCodeZero,
                  threadPoint, schedPc, processingQuit, returned, recordLog,
                  claimLog, claimIndex, passiveVars >>

\* lines 611-630: the block under the lock.  The model claims a slab past
\* MaxClaims only while quitting is set (the worker then leaves at line 607).
WorkerDispatch(t) ==
  /\ threadPc[t] = "lock"
  /\ \/ foundGridCodeZero[t]
     \/ ~continueExpansion
     \/ Len(claimLog) < MaxClaims
     \/ quitting
  /\ IF foundGridCodeZero[t]
       THEN /\ recordResult(t, threadPoint[t])
            /\ threadPc' = [threadPc EXCEPT ![t] = "exit"]
            /\ UNCHANGED << baselineRadius, expansionRadiusGoal,
                            expansionProgress, expandingDim, positiveExpand,
                            threadBaselineRadius, threadQueryX0,
                            threadQueryDims, claimLog, claimIndex >>
       ELSE IF ~continueExpansion
         THEN /\ threadPc' = [threadPc EXCEPT ![t] = "exit"]
              /\ UNCHANGED << baselineRadius, expansionRadiusGoal,
                              expansionProgress, expandingDim, positiveExpand,
                              continueExpansion, pointWithGridCodeZero,
                              foundPointBaselineRadius, threadBaselineRadius,
                              threadQueryX0, threadQueryDims,
                              threadShouldContinue, claimLog, claimIndex,
                              recordLog >>
         ELSE /\ claimNextTask(t)
              /\ threadPc' = [threadPc EXCEPT ![t] = "search"]
              /\ UNCHANGED << continueExpansion, pointWithGridCodeZero,
                              foundPointBaselineRadius, threadShouldContinue,
                              recordLog >>
  /\ UNCHANGED << quitting, numActiveThreads, threadRunning,
                  foundGridCodeZero, threadPoint, schedPc, processingQuit,
                  returned, passiveVars >>

(***************************************************************************)
(* Lines 633-637: the worker's call of findGridCodeZeroHelper returns.     *)
(* The recursions before the deciding one change only the worker's own     *)
(* x0, dims and vertex buffer, so the step below is the recursion that     *)
(* decides the call: it polls the worker's flag (line 395) and either      *)
(* gives up, accepts a vertex (tryFindGridCodeZero) or rejects the last    *)
(* open rectangle (tryProveGridCodeZeroImpossible).  What the probes       *)
(* answer depends on the module geometry, an input: the model takes both   *)
(* answers for the first MaxClaims - 1 slabs and takes every later slab    *)
(* to hold a witness.                                                      *)
(***************************************************************************)
searchFrame == << quitting, baselineRadius, expansionRadiusGoal,
                  expansionProgress, expandingDim, positiveExpand,
                  continueExpansion, pointWithGridCodeZero,
                  foundPointBaselineRadius, numActiveThreads,
                  threadBaselineRadius, threadQueryX0, threadQueryDims,
                  threadShouldContinue, threadRunning, schedPc,
                  processingQuit, returned, recordLog, claimLog, claimIndex >>

\* lines 395-398: the flag is false, every open recursion returns false
SearchCancelled(t) ==
  /\ threadPc[t] = "search"
  /\ ~threadShouldContinue[t]
  /\ foundGridCodeZero' = [foundGridCodeZero EXCEPT ![t] = FALSE]
  /\ threadPc' = [threadPc EXCEPT ![t] = "top"]
  /\ UNCHANGED << passiveVars, threadPoint, searchFrame >>

\* lines 400-405: a vertex is accepted, every open recursion returns true
SearchFinds(t) ==
  /\ threadPc[t] = "search"
  /\ threadShouldContinue[t]
  /\ \E b \in WitnessVertices :
       threadPoint' = [threadPoint EXCEPT
                         ![t] = Vertex(threadQueryX0[t], threadQueryDims[t], b)]
  /\ foundGridCodeZero' = [foundGridCodeZero EXCEPT ![t] = TRUE]
  /\ threadPc' = [threadPc EXCEPT ![t] = "top"]
  /\ UNCHANGED << passiveVars, searchFrame >>

\* lines 407-413: the last open rectangle is rejected, the call returns false
SearchExhausts(t) ==
  /\ threadPc[t] = "search"
  /\ threadShouldContinue[t]
  /\ claimIndex[t] < MaxClaims
  /\ foundGridCodeZero' = [foundGridCodeZero EXCEPT ![t] = FALSE]
  /\ threadPc' = [threadPc EXCEPT ![t] = "top"]
  /\ UNCHANGED << passiveVars, threadPoint, searchFrame >>

\* lines 640-648: the exit block under the lock, and the return of the thread
\* function, which ends the life of its locals.  notify_all wakes the
\* scheduler only if it is blocked in wait_until at this moment.
WorkerExit(t) ==
  /\ threadPc[t] = "exit"
  /\ numActiveThreads' = numActiveThreads - 1
  /\ schedPc' = IF numActiveThreads - 1 = 0 /\ schedPc = "wait"
                  THEN "woken" ELSE schedPc
  /\ threadRunning' = [threadRunning EXCEPT ![t] = FALSE]
  /\ threadPc' = [threadPc EXCEPT ![t] = "done"]
  /\ foundGridCodeZero' = [foundGridCodeZero EXCEPT ![t] = FALSE]
  /\ threadPoint' = [threadPoint EXCEPT ![t] = ZeroVector]
  /\ UNCHANGED << quitting, baselineRadius, expansionRadiusGoal,
                  expansionProgress, expandingDim, positiveExpand,
                  continueExpansion, pointWithGridCodeZero,
                  foundPointBaselineRadius, threadBaselineRadius,
                  threadQueryX0, threadQueryDims, threadShouldContinue,
                  processingQuit, returned, recordLog, claimLog, claimIndex,
                  passiveVars >>

(***************************************************************************)
(* computeGridUniquenessHypercube: the wait loop, lines 740-800, and the   *)
(* end of the call, lines 803-811.  wait_until releases the lock and       *)
(* returns, with the lock held again, on a notification, at the deadline   *)
(* tNextPrint, or spuriously.                                              *)
(***************************************************************************)
workerVars == << baselineRadius, expansionRadiusGoal, expansionProgress,
                 expandingDim, positiveExpand, continueExpansion,
                 pointWithGridCodeZero, foundPointBaselineRadius,
                 numActiveThreads, threadBaselineRadius, threadQueryX0,
                 threadQueryDims, threadRunning, threadPc, foundGridCodeZero,
                 threadPoint, recordLog, claimLog, claimIndex >>

\* the deadline tNextPrint passes while the scheduler is blocked
WaitTimesOut ==
  /\ schedPc = "wait"
  /\ schedPc' = "timeout"
  /\ UNCHANGED << passiveVars, workerVars, quitting, threadShouldContinue, processingQuit,
                  returned >>

\* wait_until unblocks without a notification and before the deadline
WaitWakesSpuriously ==
  /\ schedPc = "wait"
  /\ schedPc' = "woken"
  /\ UNCHANGED << passiveVars, workerVars, quitting, threadShouldContinue, processingQuit,
                  returned >>

\* lines 744-783: the log tick, then the next wait_until
LogTick ==
  /\ schedPc = "timeout"
  /\ schedPc' = "wait"
  /\ UNCHANGED << passiveVars, workerVars, quitting, threadShouldContinue, processingQuit,
                  returned >>

\* lines 785-799: wait_until returned no_timeout
HandleWakeup ==
  /\ schedPc = "woken"
  /\ IF quitting /\ ~processingQuit
       THEN /\ processingQuit' = TRUE
            /\ threadShouldContinue' = [t \in Threads |-> FALSE]
            /\ schedPc' = "wait"
       ELSE /\ schedPc' = "afterLoop"
            /\ UNCHANGED << processingQuit, threadShouldContinue >>
  /\ UNCHANGED << passiveVars, workerVars, quitting, returned >>

\* lines 803-811, the lock being released at line 801: the throw, or the
\* read of foundPointBaselineRadius for the returned pair
FinishCall ==
  /\ schedPc = "afterLoop"
  /\ IF quitting
       THEN /\ quitting' = FALSE
            /\ schedPc' = "thrown"
            /\ UNCHANGED returned
       ELSE /\ schedPc' = "copying"
            /\ returned' = << foundPointBaselineRadius >>
            /\ UNCHANGED quitting
  /\ UNCHANGED << passiveVars, workerVars, threadShouldContinue, processingQuit >>

\* line 811: the copy of pointWithGridCodeZero into the returned pair
CopyWitness ==
  /\ schedPc = "copying"
  /\ schedPc' = "returned"
  /\ returned' = << returned[1], pointWithGridCodeZero >>
  /\ UNCHANGED << passiveVars, workerVars, quitting, threadShouldContinue,
                  processingQuit >>

\* line 665: the SIGINT handler, while the call is running
Interrupt ==
  /\ schedPc \notin {"returned", "thrown"}
  /\ ~quitting
  /\ quitting' = TRUE
  /\ UNCHANGED << passiveVars, workerVars, threadShouldContinue, schedPc, processingQuit,
                  returned >>

Worker(t) ==
  \/ WorkerLoopTest(t)
  \/ WorkerDispatch(t)
  \/ SearchCancelled(t)
  \/ SearchFinds(t)
  \/ SearchExhausts(t)
  \/ WorkerExit(t)

Scheduler ==
  \/ WaitTimesOut
  \/ WaitWakesSpuriously
  \/ LogTick
  \/ HandleWakeup
  \/ FinishCall
  \/ CopyWitness

EnumIdle ==
  /\ lpe = << >>
  /\ lpeOut = << >>
  /\ lpeDone = FALSE
  /\ lpeFull = << >>

GeoIdle ==
  /\ geoIn = << >>
  /\ geoCall = "none"
  /\ geoOut = << >>
  /\ geoFlag = NeverCleared

Init ==
  /\ SchedInit
  /\ EnumIdle
  /\ GeoIdle

Next ==
  \/ \E t \in Threads : Worker(t)
  \/ Scheduler
  \/ Interrupt

Spec == Init /\ [][Next]_vars

\* Every worker thread is scheduled; the deadline of wait_until passes and
\* the scheduler thread runs.  Nothing obliges a spurious wakeup or an
\* interrupt to happen.
Fairness ==
  /\ \A t \in Threads : WF_vars(Worker(t))
  /\ WF_vars(WaitTimesOut)
  /\ WF_vars(LogTick)
  /\ WF_vars(HandleWakeup)
  /\ WF_vars(FinishCall)
  /\ WF_vars(CopyWitness)

FairSpec == Spec /\ Fairness

(***************************************************************************)
(* DiameterSpec: the uniqueness search called with any of several values   *)
(* of ignoredCenterDiameter, the least positive double among them.  In     *)
(* units of that double the radii of such a call are the integers doubles  *)
(* compute: 2 * 1 = 2 and 2 * 1.01 = 2.02, which rounds to 2.              *)
(***************************************************************************)
\* std::numeric_limits<double>::denorm_min(), in units of itself
DenormMin == 1

IgnoredCenterDiameters == {DenormMin, IgnoredCenterDiameter}

DiameterInit ==
  /\ \E ignoredCenterDiameter \in IgnoredCenterDiameters :
       SchedInitFor(ignoredCenterDiameter)
  /\ EnumIdle
  /\ GeoIdle

DiameterSpec == DiameterInit /\ [][Next]_vars

(***************************************************************************)
(* EnumSpec: a LatticePointEnumerator is constructed over a lattice and a  *)
(* rectangle and then driven by any sequence of getNext and restart calls. *)
(* The variables of the uniqueness search keep their initial values.       *)
(***************************************************************************)
\* the widest rectangle side
MaxExtent == 3

EnumOrigins == -2 .. 2

\* square, sheared, rotated, mirrored (negative determinant) and oblique
\* lattices, of determinants 1, 4, 2, -2, 3, 5 and 9
EnumLatticeBases ==
  { << << 1, 0 >>, << 0, 1 >> >>, << << 2, 1 >>, << 0, 2 >> >>,
    << << 1, 1 >>, << -1, 1 >> >>, << << 0, 2 >>, << 1, 0 >> >>,
    << << 2, 1 >>, << 1, 2 >> >>, << << 3, 1 >>, << 1, 2 >> >>,
    << << 3, 0 >>, << 0, 3 >> >> }

EnumInit ==
  /\ SchedInit
  /\ GeoIdle
  /\ \E latticeBasis \in EnumLatticeBases :
       \E x0, y0 \in EnumOrigins :
         \E width, height \in 0 .. MaxExtent :
           lpe = LatticePointEnumerator(latticeBasis,
                                        invert2DMatrix(latticeBasis),
                                        x0, y0, width, height)
  /\ lpeOut = << >>
  /\ lpeDone = FALSE
  /\ lpeFull = << >>

\* one call of getNext; lpeFull keeps the first pass that was run to its end
CallGetNext ==
  LET r == getNext(lpe)
  IN  /\ lpe' = r.e
      /\ IF r.found
           THEN /\ lpeOut' = Append(lpeOut, r.out)
                /\ UNCHANGED << lpeDone, lpeFull >>
           ELSE /\ lpeDone' = TRUE
                /\ lpeFull' = IF lpeFull = << >> THEN << lpeOut >> ELSE lpeFull
                /\ UNCHANGED lpeOut
      /\ UNCHANGED << schedVars, geoVars >>

\* one call of restart
CallRestart ==
  /\ lpe' = restart(lpe)
  /\ lpeOut' = << >>
  /\ lpeDone' = FALSE
  /\ UNCHANGED << lpeFull, schedVars, geoVars >>

EnumNext ==
  \/ CallGetNext
  \/ CallRestart

EnumSpec == EnumInit /\ [][EnumNext]_vars

(***************************************************************************)
(* GeoSpec: one call of tryFindGridCodeZero, of                            *)
(* tryProveGridCodeZeroImpossible or of findGridCodeZero on a module       *)
(* geometry and a hyperrectangle.  The columns of the domainToPlane        *)
(* matrices and the widths (powers of two) are such that a rectangle of    *)
(* unit widths has an image of diameter below Epsilon, so that no          *)
(* recursion of findGridCodeZeroHelper has to halve an odd width.          *)
(***************************************************************************)
DomainToPlaneIdentity ==
  << [d \in Dims |-> IF d = 1 THEN 0 ELSE 1],
     [d \in Dims |-> IF d = 0 THEN 0 ELSE 1] >>

DomainToPlaneShear ==
  << [d \in Dims |-> IF d <= 1 THEN 1 ELSE 0],
     [d \in Dims |-> IF d = 0 THEN 0 ELSE 1] >>

DomainToPlaneMirror ==
  << [d \in Dims |-> IF d = 0 THEN 1 ELSE 0],
     [d \in Dims |-> IF d = 0 THEN 0 ELSE IF d = 1 THEN -1 ELSE 1] >>

LatticeSquare == << << 8, 0 >>, << 0, 8 >> >>

LatticeOblique == << << 8, 4 >>, << 0, 8 >> >>

LatticeSwapped == << << 0, 6 >>, << 6, 0 >> >>

LatticeWide == << << 16, 0 >>, << 0, 16 >> >>

\* the module geometries: (domainToPlaneByModule, latticeBasisByModule)
GeoModules ==
  { << << DomainToPlaneIdentity >>, << LatticeSquare >> >>,
    << << DomainToPlaneIdentity, DomainToPlaneShear >>,
       << LatticeSquare, LatticeOblique >> >>,
    << << DomainToPlaneMirror, DomainToPlaneIdentity >>,
       << LatticeSwapped, LatticeSquare >> >>,
    << << DomainToPlaneShear >>, << LatticeWide >> >> }

GeoOrigins == {-4, -1, 1, 5}

GeoWidths == {1, 4, 8}

GeoReadoutResolutions == {2, 8}

\* the most loads of shouldContinue that return true in a cancelled search
MaxLoads == 4

GeoInit ==
  /\ SchedInit
  /\ EnumIdle
  /\ \E modules \in GeoModules :
       \E x0 \in [Dims -> GeoOrigins] :
         \E dims \in [Dims -> GeoWidths] :
           \E readoutResolution \in GeoReadoutResolutions :
             geoIn = [domainToPlaneByModule |-> modules[1],
                      latticeBasisByModule |-> modules[2],
                      x0 |-> x0, dims |-> dims,
                      readoutResolution |-> readoutResolution]
  /\ geoCall = "none"
  /\ geoOut = << >>
  /\ geoFlag = NeverCleared

\* the arguments the helper hands to its probes
GeoM == ModuleArguments(geoIn.domainToPlaneByModule, geoIn.latticeBasisByModule)

CallTryFindGridCodeZero ==
  /\ geoCall = "none"
  /\ geoCall' = "tryFindGridCodeZero"
  /\ geoOut' = tryFindGridCodeZero(GeoM, geoIn.x0, geoIn.dims,
                                   geoIn.readoutResolution)
  /\ UNCHANGED << geoIn, geoFlag, schedVars, enumVars >>

CallTryProveGridCodeZeroImpossible ==
  /\ geoCall = "none"
  /\ geoCall' = "tryProveGridCodeZeroImpossible"
  /\ geoOut' = tryProveGridCodeZeroImpossible(GeoM, geoIn.x0, geoIn.dims,
                                              geoIn.readoutResolution)
  /\ UNCHANGED << geoIn, geoFlag, schedVars, enumVars >>

CallFindGridCodeZero ==
  /\ geoCall = "none"
  /\ geoCall' = "findGridCodeZero"
  /\ geoOut' = findGridCodeZero(geoIn.domainToPlaneByModule,
                                geoIn.latticeBasisByModule, geoIn.x0,
                                geoIn.dims, geoIn.readoutResolution)
  /\ UNCHANGED << geoIn, geoFlag, schedVars, enumVars >>

\* line 633: a worker's call, with a flag that another thread clears after
\* some number of loads
CallFindGridCodeZeroHelper ==
  /\ geoCall = "none"
  /\ geoCall' = "findGridCodeZeroHelper"
  /\ \E loads \in 0 .. MaxLoads :
       /\ geoFlag' = loads
       /\ geoOut' = findGridCodeZeroHelper(GeoM, geoIn.x0, geoIn.dims,
                                           geoIn.readoutResolution,
                                           ZeroVector, loads)
  /\ UNCHANGED << geoIn, schedVars, enumVars >>

GeoNext ==
  \/ CallTryFindGridCodeZero
  \/ CallTryProveGridCodeZeroImpossible
  \/ CallFindGridCodeZero
  \/ CallFindGridCodeZeroHelper

GeoSpec == GeoInit /\ [][GeoNext]_vars

(***************************************************************************)
(* EntrySpec: the entry of findGridCodeZero (lines 445-462) and of         *)
(* computeGridUniquenessHypercube (lines 670-680) on arguments of any      *)
(* shape.  NTA_CHECK is always compiled in; NTA_ASSERT only in builds with *)
(* NTA_ASSERTIONS_ON, which is an input here.  A call that passes its      *)
(* entry goes on to the search.                                            *)
(***************************************************************************)
\* sizeof(int)*8
IntBits == 32

\* vector::size() of a row of a matrix
Size(row) == Cardinality(DOMAIN row)

\* a matrix of the given shape
ZeroMatrix(rows, columns) ==
  [r \in 1 .. rows |-> [d \in 0 .. (columns - 1) |-> 0]]

EntryRows == {1, 2, 3}

EntryColumns == {NumDims, NumDims + 1, IntBits - 1, IntBits}

EntryWidths == {-1, 0, 2}

\* pointWithGridCodeZero: nullptr (the empty sequence), or a vector and its
\* size
EntryBuffers == {<< >>, << NumDims >>, << NumDims + 1 >>}

EntryInit ==
  /\ SchedInit
  /\ EnumIdle
  /\ \E rows \in [1 .. 2 -> EntryRows] :
       \E columns \in [1 .. 2 -> EntryColumns] :
         \E dims \in [Dims -> EntryWidths] :
           \E buffer \in EntryBuffers :
             \E assertionsOn \in BOOLEAN :
               geoIn = [domainToPlaneByModule |->
                          [m \in 1 .. 2 |-> ZeroMatrix(rows[m], columns[m])],
                        latticeBasisByModule |->
                          << LatticeSquare, LatticeSquare >>,
                        x0 |-> ZeroVector, dims |-> dims,
                        readoutResolution |-> 2,
                        pointWithGridCodeZero |-> buffer,
                        NTA_ASSERTIONS_ON |-> assertionsOn]
  /\ geoCall = "none"
  /\ geoOut = << >>
  /\ geoFlag = NeverCleared

\* lines 452-462: the NTA_ASSERTs of findGridCodeZero that fail
findGridCodeZeroAsserts(in) ==
  /\ in.NTA_ASSERTIONS_ON
  /\ \/ /\ in.pointWithGridCodeZero # << >>
        /\ in.pointWithGridCodeZero[1] # Size(in.dims)
     \/ Len(in.domainToPlaneByModule[1]) # 2

\* lines 670-680: the NTA_CHECKs of computeGridUniquenessHypercube that fail
computeGridUniquenessHypercubeChecks(in) ==
  \/ Len(in.domainToPlaneByModule[1]) # 2
  \/ Len(in.latticeBasisByModule[1][1]) # 2
  \/ ~(Size(in.domainToPlaneByModule[1][1]) < IntBits)

\* the call throws at its entry, or goes on to line 464
EnterFindGridCodeZero ==
  /\ geoCall = "none"
  /\ geoCall' = "findGridCodeZero"
  /\ geoOut' = [error |-> findGridCodeZeroAsserts(geoIn)]
  /\ UNCHANGED << geoIn, geoFlag, schedVars, enumVars >>

\* the call throws at its entry, or goes on to line 682
EnterComputeGridUniquenessHypercube ==
  /\ geoCall = "none"
  /\ geoCall' = "computeGridUniquenessHypercube"
  /\ geoOut' = [error |-> computeGridUniquenessHypercubeChecks(geoIn)]
  /\ UNCHANGED << geoIn, geoFlag, schedVars, enumVars >>

EntryNext ==
  \/ EnterFindGridCodeZero
  \/ EnterComputeGridUniquenessHypercube

EntrySpec == EntryInit /\ [][EntryNext]_vars

(***************************************************************************)
(* Properties of the lattice point enumerator and of the point search.     *)
(* The lattice points are named here by their integer coordinates i, j,    *)
(* taken from a window wide enough to hold every point within the given    *)
(* distances of the origin.                                                *)
(***************************************************************************)
\* the i (row 1) or j (row 2) of every lattice point of the basis L with
\* |x| <= xBound and |y| <= yBound
IndexRange(L, row, xBound, yBound) ==
  LET k == IF row = 1
             THEN (Abs(L[2][2]) * xBound + Abs(L[1][2]) * yBound)
                    \div Abs(Det(L))
             ELSE (Abs(L[2][1]) * xBound + Abs(L[1][1]) * yBound)
                    \div Abs(Det(L))
  IN  (-(k + 1)) .. (k + 1)

\* the lattice points L*(i,j) inside the rectangle [x0, x0+width] x
\* [y0, y0+height]
LatticePointsInside(L, x0, y0, width, height) ==
  LET xBound == Max2(Abs(x0), Abs(x0 + width))
      yBound == Max2(Abs(y0), Abs(y0 + height))
  IN  { p \in { << L[1][1] * i + L[1][2] * j, L[2][1] * i + L[2][2] * j >> :
                  i \in IndexRange(L, 1, xBound, yBound),
                  j \in IndexRange(L, 2, xBound, yBound) } :
          /\ x0 <= p[1] /\ p[1] <= x0 + width
          /\ y0 <= p[2] /\ p[2] <= y0 + height }

\* the point p of the plane is within distance radius of a lattice point
NearLatticePoint(L, p, radius) ==
  \E q \in LatticePointsInside(L, p[1] - radius, p[2] - radius,
                               2 * radius, 2 * radius) :
    Dist2(q, p) <= radius * radius

\* the image of the domain point p is within radius of a lattice point in
\* every module of the call
NearInEveryModule(p, radius) ==
  \A m \in 1 .. Len(geoIn.domainToPlaneByModule) :
    NearLatticePoint(geoIn.latticeBasisByModule[m],
                     transformND(geoIn.domainToPlaneByModule[m], p), radius)

\* the grid points of the hyperrectangle [x0, x0 + dims] of the call
PointsOfHyperrectangle ==
  LET lo == SetMin({ geoIn.x0[d] : d \in Dims })
      hi == SetMax({ geoIn.x0[d] + geoIn.dims[d] : d \in Dims })
  IN  { p \in [Dims -> lo .. hi] :
          \A d \in Dims : /\ geoIn.x0[d] <= p[d]
                          /\ p[d] <= geoIn.x0[d] + geoIn.dims[d] }

\* a grid-code-zero point: within rho/2, closed disk, in every module
GridCodeZeroPoints ==
  { p \in PointsOfHyperrectangle :
      NearInEveryModule(p, geoIn.readoutResolution \div 2) }

\* the findGridCodeZero calls of GeoSpec never halve an odd width
HalvingIsExact == geoCall = "findGridCodeZero" => geoOut.exact

Range(s) == { s[k] : k \in 1 .. Len(s) }

\* C10: the getNext calls until the first false yield every lattice point
\* L*(i,j) inside the rectangle, each once, and no other point; once a call
\* returned false the next call returns false too; after restart the same
\* sequence is yielded again.
C10_EnumeratorCompleteness ==
  LET inside == LatticePointsInside(lpe.latticeBasis, lpe.x0, lpe.y0,
                                    lpe.width, lpe.height)
  IN  /\ Range(lpeOut) \subseteq inside
      /\ \A j, k \in 1 .. Len(lpeOut) : j # k => lpeOut[j] # lpeOut[k]
      /\ lpeDone => Range(lpeOut) = inside /\ ~getNext(lpe).found
      /\ lpeFull # << >> =>
           /\ Len(lpeOut) <= Len(lpeFull[1])
           /\ lpeOut = SubSeq(lpeFull[1], 1, Len(lpeOut))
           /\ lpeDone => lpeOut = lpeFull[1]

\* C3: when tryProveGridCodeZeroImpossible returns true there is a module in
\* which the image of every point of the hyperrectangle is farther than
\* rho/2 from every lattice point, and the hyperrectangle holds no
\* grid-code-zero point.
C3_SoundRejection ==
  (geoCall = "tryProveGridCodeZeroImpossible" /\ geoOut.impossible) =>
    /\ \E m \in 1 .. Len(geoIn.domainToPlaneByModule) :
         \A p \in PointsOfHyperrectangle :
           ~NearLatticePoint(geoIn.latticeBasisByModule[m],
                             transformND(geoIn.domainToPlaneByModule[m], p),
                             geoIn.readoutResolution \div 2)
    /\ GridCodeZeroPoints = {}

\* the vertices, by their number b, that are within rho/2 + epsilon of a
\* lattice point in every module
QualifyingVertices ==
  { b \in 0 .. (2 ^ NumDims - 1) :
      NearInEveryModule([i \in Dims |->
                           IF (b \div (2 ^ i)) % 2 = 1
                             THEN geoIn.x0[i] + geoIn.dims[i]
                             ELSE geoIn.x0[i]],
                        geoIn.readoutResolution \div 2 + Epsilon) }

C5_SearchFindsGridCodeZero ==
  (geoCall = "findGridCodeZero" /\ GridCodeZeroPoints # {}) =>
    /\ geoOut.found
    /\ geoOut.vertexBuffer \in PointsOfHyperrectangle
    /\ NearInEveryModule(geoOut.vertexBuffer,
                         geoIn.readoutResolution \div 2 + Epsilon)

\* the call of findGridCodeZeroHelper with these arguments, and every call
\* it makes in turn, returns with x0 and dims as they were at its entry
RECURSIVE ScopedAtEveryDepth(_, _, _, _, _, _)
ScopedAtEveryDepth(M, x0, dims, readoutResolution, vertexBuffer, shouldContinue) ==
  LET result == findGridCodeZeroHelper(M, x0, dims, readoutResolution,
                                       vertexBuffer, shouldContinue)
      prove == tryProveGridCodeZeroImpossible(M, x0, dims, readoutResolution)
      w == iWidestDim(dims)
      splits == /\ Load(shouldContinue)
                /\ ~tryFindGridCodeZero(M, x0, dims, readoutResolution).found
                /\ ~prove.impossible
                /\ dims[w] % 2 = 0
      halved == [dims EXCEPT ![w] = dims[w] \div 2]
      first == findGridCodeZeroHelper(M, x0, halved, readoutResolution,
                                      prove.vertexBuffer,
                                      AfterLoad(shouldContinue))
  IN  /\ result.x0 = x0
      /\ result.dims = dims
      /\ splits =>
           /\ ScopedAtEveryDepth(M, x0, halved, readoutResolution,
                                 prove.vertexBuffer, AfterLoad(shouldContinue))
           /\ ~first.found =>
                ScopedAtEveryDepth(
                  M, [x0 EXCEPT ![w] = x0[w] + halved[w]], halved,
                  readoutResolution, first.vertexBuffer, first.shouldContinue)

\* C11: every call of findGridCodeZeroHelper, at every recursion depth and
\* on every return path (witness found, disqualified, cancelled, both halves
\* exhausted), leaves x0 and dims as they were when the call was entered.
C11_ScopedMutation ==
  geoCall \in {"findGridCodeZero", "findGridCodeZeroHelper"} =>
    /\ geoOut.x0 = geoIn.x0
    /\ geoOut.dims = geoIn.dims
    /\ ScopedAtEveryDepth(GeoM, geoIn.x0, geoIn.dims, geoIn.readoutResolution,
                          ZeroVector, geoFlag)

\* C11's case: a search that split its rectangle at least twice and was then
\* cancelled, every open recursion returning false through both destructors
C11_Witness ==
  /\ geoCall = "findGridCodeZeroHelper"
  /\ geoFlag >= 3
  /\ geoOut.shouldContinue = 0
  /\ ~geoOut.found
  /\ geoOut.x0 = geoIn.x0
  /\ geoOut.dims = geoIn.dims

\* the squared distance of the point q of the plane to the box
BoxDist2(q, box) ==
  Dist2(q, << Max2(box.xmin, Min2(q[1], box.xmax)),
              Max2(box.ymin, Min2(q[2], box.ymax)) >>)

\* the lattice points of module m whose distance to the bounding box of the
\* image of the hyperrectangle satisfies Near (a test of the squared
\* distance against the squared radius), looked for in the box grown by
\* twice the radius
LatticePointsNearBox(m, radius, Near(_, _)) ==
  LET box == PhaseBoundingBox(geoIn.domainToPlaneByModule[m], geoIn.x0,
                              geoIn.dims)
  IN  { q \in LatticePointsInside(geoIn.latticeBasisByModule[m],
                                  box.xmin - 2 * radius, box.ymin - 2 * radius,
                                  (box.xmax - box.xmin) + 4 * radius,
                                  (box.ymax - box.ymin) + 4 * radius) :
          Near(BoxDist2(q, box), radius * radius) }

AtMost(a, b) == a <= b

\* in some module the whole bounding box of the image, and so the image of
\* every point of the hyperrectangle, is farther than rho/2 from every
\* lattice point: the hyperrectangle admits no grid-code-zero point
AdmitsNoGridCodeZero ==
  \E m \in 1 .. Len(geoIn.domainToPlaneByModule) :
    LatticePointsNearBox(m, geoIn.readoutResolution \div 2, AtMost) = {}

\* no point of the hyperrectangle is within rho/2 + epsilon of a lattice
\* point in every module
NoPointWithinSlack ==
  \A p \in PointsOfHyperrectangle :
    ~NearInEveryModule(p, geoIn.readoutResolution \div 2 + Epsilon)

\* C13 as stated: on a hyperrectangle that admits no grid-code-zero point,
\* findGridCodeZero ends after finitely many splits (none beyond the grid)
\* and returns false.
C13_TerminatesWithFalse ==
  (geoCall = "findGridCodeZero" /\ AdmitsNoGridCodeZero) =>
    /\ geoOut.exact
    /\ ~geoOut.found

\* C13 amended: on a hyperrectangle no point of which is within
\* rho/2 + epsilon of a lattice point in every module, findGridCodeZero ends
\* after finitely many splits and returns false; with the flag never
\* cleared, false is returned only when every branch of the recursion ended
\* in a disqualification.
C13_TerminatesWithoutNearPoint ==
  (geoCall = "findGridCodeZero" /\ NoPointWithinSlack) =>
    /\ geoOut.exact
    /\ ~geoOut.found

\* C13's case: the disqualification probe cannot reject the hyperrectangle
\* as a whole, and the recursion rejects every part of it
C13_Witness ==
  /\ geoCall = "findGridCodeZero"
  /\ NoPointWithinSlack
  /\ ~tryProveGridCodeZeroImpossible(GeoM, geoIn.x0, geoIn.dims,
                                     geoIn.readoutResolution).impossible
  /\ geoOut.exact
  /\ ~geoOut.found

\* C19: tryProveGridCodeZeroImpossible returns true iff in some module no
\* lattice point is within rho/2 (closed disk) of the bounding box of the
\* images of the vertices, and false iff every module has such a lattice
\* point; the lattice points outside the box grown by rho/2 do not matter.
C19_DisqualificationProbe ==
  geoCall = "tryProveGridCodeZeroImpossible" =>
    (geoOut.impossible <=>
       \E m \in 1 .. Len(geoIn.domainToPlaneByModule) :
         LatticePointsNearBox(m, geoIn.readoutResolution \div 2, AtMost) = {})

\* the arguments of the call break a precondition: a domainToPlane matrix
\* without exactly two rows, a domain dimensionality that differs across
\* modules or is not below the integer bit width, or (for findGridCodeZero)
\* a width that is not positive
RowsInvalid ==
  \E m \in 1 .. Len(geoIn.domainToPlaneByModule) :
    Len(geoIn.domainToPlaneByModule[m]) # 2

DimensionalityInvalid ==
  \/ \E m, n \in 1 .. Len(geoIn.domainToPlaneByModule) :
       Size(geoIn.domainToPlaneByModule[m][1]) #
         Size(geoIn.domainToPlaneByModule[n][1])
  \/ \E m \in 1 .. Len(geoIn.domainToPlaneByModule) :
       Size(geoIn.domainToPlaneByModule[m][1]) >= IntBits

WidthsInvalid == \E d \in Dims : geoIn.dims[d] <= 0

\* C12: findGridCodeZero and computeGridUniquenessHypercube report an error
\* at entry, instead of searching, when a domainToPlane matrix of any module
\* has not exactly two rows, when N differs across modules or is not below
\* the integer bit width, and (findGridCodeZero) when some dims[i] <= 0.
C12_InvalidInputRejected ==
  /\ geoCall = "findGridCodeZero" =>
       (RowsInvalid \/ DimensionalityInvalid \/ WidthsInvalid => geoOut.error)
  /\ geoCall = "computeGridUniquenessHypercube" =>
       (RowsInvalid \/ DimensionalityInvalid => geoOut.error)

(***************************************************************************)
(* Properties of the uniqueness search                                     *)
(***************************************************************************)
\* the interrupt source fired during this call (line 807 resets the flag)
Interrupted == quitting \/ schedPc = "thrown"

Ended == schedPc \in {"returned", "thrown"}

LoggedBaselines == {recordLog[k].baseline : k \in 1 .. Len(recordLog)}

MinLoggedBaseline ==
  CHOOSE b \in LoggedBaselines : \A c \in LoggedBaselines : b <= c

FirstMinRecord ==
  CHOOSE k \in 1 .. Len(recordLog) :
    /\ recordLog[k].baseline = MinLoggedBaseline
    /\ \A j \in 1 .. (k - 1) : recordLog[j].baseline # MinLoggedBaseline

\* C1: after any interleaving of recordResult calls, foundPointBaselineRadius
\* is the least threadBaselineRadius of the workers that called recordResult
\* and pointWithGridCodeZero is the point of the first call, in lock order,
\* made with that least baseline; with no call yet both hold their initial
\* values.
C1_BestWitnessIsFirstMinimum ==
  /\ \A k \in 1 .. Len(recordLog) :
       threadBaselineRadius[recordLog[k].thread] = recordLog[k].baseline
  /\ IF recordLog = << >>
       THEN /\ foundPointBaselineRadius = DBL_MAX
            /\ pointWithGridCodeZero = ZeroVector
       ELSE /\ foundPointBaselineRadius = MinLoggedBaseline
            /\ pointWithGridCodeZero = recordLog[FirstMinRecord].point

\* C1's case: two workers recorded different points under the same, least
\* baseline, and the stored point is the earlier one
C1_Witness ==
  \E j, k \in 1 .. Len(recordLog) :
    /\ j < k
    /\ recordLog[j].baseline = recordLog[k].baseline
    /\ recordLog[j].baseline = foundPointBaselineRadius
    /\ recordLog[j].point # recordLog[k].point
    /\ pointWithGridCodeZero = recordLog[j].point

\* the slab worker t claimed last is searched to its end without a witness
SlabDoneWithoutWitness(t) ==
  /\ threadPc[t] # "search"
  /\ ~foundGridCodeZero[t]

\* C2: with no interrupt, a worker whose threadShouldContinue is false has
\* threadBaselineRadius >= foundPointBaselineRadius, and at a normal return
\* every slab claimed under a baseline smaller than the returned radius was
\* searched to completion without a witness.
C2_NoSmallerBaselineAbandoned ==
  ~Interrupted =>
    /\ \A t \in Threads :
         ~threadShouldContinue[t] =>
           threadBaselineRadius[t] >= foundPointBaselineRadius
    /\ schedPc = "returned" =>
         \A t \in Threads :
           threadBaselineRadius[t] < returned[1] => SlabDoneWithoutWitness(t)

\* C6: baselineRadius never decreases and foundPointBaselineRadius never
\* increases, in any step of any interleaving.
C6_CubeMonotonicity ==
  [][/\ baselineRadius' >= baselineRadius
     /\ foundPointBaselineRadius' <= foundPointBaselineRadius]_vars

\* C6's case: the baseline has grown, a witness is stored, and a later
\* recordResult call came with a larger baseline than the stored one
C6_Witness ==
  /\ baselineRadius > IgnoredCenterDiameter
  /\ foundPointBaselineRadius < DBL_MAX
  /\ \E k \in 2 .. Len(recordLog) :
       recordLog[k].baseline > foundPointBaselineRadius

\* C7: once the last worker has exited, the scheduler eventually leaves its
\* wait loop and the call ends, returning (foundPointBaselineRadius,
\* pointWithGridCodeZero) when no interrupt occurred.
C7_SchedulerCompletion ==
  (numActiveThreads = 0) ~>
     (/\ Ended
      /\ ~Interrupted =>
           /\ schedPc = "returned"
           /\ returned = << foundPointBaselineRadius, pointWithGridCodeZero >>)

\* C8: once quitting is set the call eventually ends by throwing (so it
\* never returns a radius and a witness), and when it throws every worker
\* has exited and quitting is false again.
C8_InterruptProtocol ==
  quitting ~> (schedPc = "thrown" /\ numActiveThreads = 0 /\ ~quitting)

\* C9: once quitting is set, every worker's threadShouldContinue gets
\* cleared, which is what makes the searches in flight give up at their next
\* recursion.
C9_CancellationLiveness ==
  quitting ~> (\A t \in Threads : ~threadShouldContinue[t])

\* the baseline B and the goal G of the expansion round of the given number
RECURSIVE RoundGoal(_)
RoundGoal(round) ==
  IF round = 0 THEN 2 * IgnoredCenterDiameter
  ELSE NextGoal(RoundGoal(round - 1))

RoundBaseline(round) ==
  IF round = 0 THEN IgnoredCenterDiameter ELSE RoundGoal(round - 1)

SlabsPerRound == 2 * NumDims - 1

\* the slabs of the sequence
\* (axis 0,+), (axis 0,-), ..., (axis N-2,-), (axis N-1,+), round after round,
\* as far as the workers can claim them and to the end of the round after
ExpectedClaims ==
  [k \in 1 .. (MaxClaims + NumThreads + SlabsPerRound) |->
     LET round == (k - 1) \div SlabsPerRound
         place == (k - 1) % SlabsPerRound
     IN  [baseline |-> RoundBaseline(round), goal |-> RoundGoal(round),
          dim |-> place \div 2, positive |-> place % 2 = 0]]

\* the slab of the given number (from 1) of the sequence
ExpectedClaim(k) == ExpectedClaims[k]

\* C14: in every interleaving the slabs claimed through claimNextTask are, in
\* lock order, the slabs (axis 0,+), (axis 0,-), ..., (axis N-2,+),
\* (axis N-2,-), (axis N-1,+) under (B, G), then under the next (B, G), and
\* so on; the slab a worker holds is the one of its own claim, and no two
\* workers hold the same claim.
C14_SerializedDispatch ==
  /\ \A k \in 1 .. Len(claimLog) :
       /\ claimLog[k].baseline = ExpectedClaim(k).baseline
       /\ claimLog[k].goal = ExpectedClaim(k).goal
       /\ claimLog[k].dim = ExpectedClaim(k).dim
       /\ claimLog[k].positive = ExpectedClaim(k).positive
  /\ \A t \in Threads :
       claimIndex[t] # 0 =>
         LET slab == ExpectedClaim(claimIndex[t])
         IN  /\ claimIndex[t] <= Len(claimLog)
             /\ threadBaselineRadius[t] = slab.baseline
             /\ threadQueryDims[t][slab.dim] = slab.goal - slab.baseline
             /\ threadQueryX0[t][slab.dim] =
                  IF slab.positive THEN slab.baseline ELSE -slab.goal
             /\ \A u \in Threads \ {t} : claimIndex[u] # claimIndex[t]

\* C14's case: both workers claimed, a round was completed and the first
\* slab of the next round is claimed
C14_Witness ==
  /\ Len(claimLog) > SlabsPerRound
  /\ \A t \in Threads : claimIndex[t] # 0 /\ claimIndex[t] < Len(claimLog) + 1
  /\ claimLog[Len(claimLog)].baseline > IgnoredCenterDiameter


\* this step is a call of claimNextTask
ClaimStep == Len(claimLog') = Len(claimLog) + 1

\* the slab claimed by this step
Claimed == claimLog'[Len(claimLog')]

\* lines 589-596 have run for the slab claimed by this step: the progress of
\* its axis is the goal and the axis has stepped, or the round is committed
ProgressAdvanced ==
  /\ expansionProgress' =
       [expansionProgress EXCEPT ![Claimed.dim] = Claimed.goal]
  /\ positiveExpand'
  /\ IF Claimed.dim + 1 > NumDims - 1
       THEN /\ baselineRadius' = Claimed.goal
            /\ expansionRadiusGoal' = NextGoal(Claimed.goal)
            /\ expandingDim' = 0
       ELSE /\ expandingDim' = Claimed.dim + 1
            /\ UNCHANGED << baselineRadius, expansionRadiusGoal >>

\* C15 as stated: right after a worker claimed the positive slab of an axis d
\* (for the final axis, its only slab), expansionProgress[d] is the goal G
\* and the expanding axis has stepped to d+1, or, past the final axis, the
\* round is committed with baselineRadius G, expansionRadiusGoal 1.01*G and
\* the axis back at 0.
C15_ProgressAfterPositiveSlab ==
  [][ClaimStep /\ Claimed.positive => ProgressAdvanced]_vars

\* C15 amended: the progress is advanced right after the claim of the
\* negative slab of an axis d < N-1 and right after the claim of the only
\* slab of the final axis; the claim of the positive slab of an axis d < N-1
\* changes nothing but positiveExpand, which becomes false.
C15_ProgressAfterLastSlabOfAxis ==
  [][ClaimStep =>
       IF Claimed.positive /\ Claimed.dim < NumDims - 1
         THEN /\ ~positiveExpand'
              /\ UNCHANGED << expansionProgress, expandingDim, baselineRadius,
                              expansionRadiusGoal >>
         ELSE ProgressAdvanced]_vars

\* C15's case: every slab of the first round was claimed, the negative ones
\* included, and the round is committed
C15_Witness ==
  /\ Len(claimLog) = SlabsPerRound
  /\ \E k \in 1 .. Len(claimLog) : ~claimLog[k].positive
  /\ baselineRadius = RoundGoal(0)
  /\ expansionRadiusGoal = RoundGoal(1)
  /\ expandingDim = 0
  /\ \A d \in Dims : expansionProgress[d] = RoundGoal(0)


\* the slabs claimed in the expansion round of the given number (from 0)
SlabsOfRound(round) ==
  { claimLog[k] : k \in (round * SlabsPerRound + 1) ..
                        ((round + 1) * SlabsPerRound) }

\* the rectangle of the slab of the given number (from 1): along its own
\* axis it spans [B, G] or [-G, -B]; the axes before it are already expanded
\* to G, the axes after it still stand at B; the final axis starts at 0
ExpectedSlab(k) ==
  LET claim == ExpectedClaim(k)
      progress(d) == IF d < claim.dim THEN claim.goal ELSE claim.baseline
  IN  [x0 |-> [d \in Dims |->
                 IF d = claim.dim
                   THEN (IF claim.positive THEN claim.baseline
                         ELSE -claim.goal)
                 ELSE IF d = NumDims - 1 THEN 0
                 ELSE -progress(d)],
       dims |-> [d \in Dims |->
                   IF d = claim.dim THEN claim.goal - claim.baseline
                   ELSE IF d = NumDims - 1 THEN progress(d)
                   ELSE 2 * progress(d)]]

ExpectedSlabsOfRound(round) ==
  { ExpectedSlab(k) : k \in (round * SlabsPerRound + 1) ..
                            ((round + 1) * SlabsPerRound) }

InSlab(x, slab) ==
  \A d \in Dims : slab.x0[d] <= x[d] /\ x[d] <= slab.x0[d] + slab.dims[d]

\* coordinates that stand for every position relative to the faces of the
\* given slabs of a round and of the two cubes: the faces, their mirror
\* images and a point next to each on either side
Faces(slabs, round) ==
  LET bounds == { RoundBaseline(round), RoundGoal(round), 0 } \cup
                UNION { { slab.x0[d], slab.x0[d] + slab.dims[d] } :
                          slab \in slabs, d \in Dims }
  IN  bounds \cup { -b : b \in bounds }

Coordinates(slabs, round) ==
  Faces(slabs, round) \cup { b + 1 : b \in Faces(slabs, round) }
                      \cup { b - 1 : b \in Faces(slabs, round) }

\* the points of the shell between the cubes of half-sides B and G
Shell(slabs, round) ==
  { x \in [Dims -> Coordinates(slabs, round)] :
      LET norm == SetMax({ Abs(x[d]) : d \in Dims })
      IN  RoundBaseline(round) < norm /\ norm <= RoundGoal(round) }

\* every point of the shell of the round lies in one of the slabs or is the
\* negation of a point of one of them
Covered(slabs, round) ==
  \A x \in Shell(slabs, round) :
    \E slab \in slabs :
      InSlab(x, slab) \/ InSlab([d \in Dims |-> -x[d]], slab)

\* the rectangles of the slab sequence cover the shell of each round
ExpectedSlabsCover ==
  \A round \in 0 .. (MaxClaims \div SlabsPerRound) :
    Covered(ExpectedSlabsOfRound(round), round)

\* the domain points the symmetry of grid code zero is checked on
SymmetryRange == -6 .. 6

\* p has grid code zero in a module geometry iff -p has
AntipodalSymmetry ==
  \A modules \in GeoModules :
    \A readoutResolution \in GeoReadoutResolutions :
      \A p \in [Dims -> SymmetryRange] :
        \A m \in 1 .. Len(modules[1]) :
          NearLatticePoint(modules[2][m], transformND(modules[1][m], p),
                           readoutResolution \div 2)
            <=> NearLatticePoint(modules[2][m],
                                 transformND(modules[1][m],
                                             [d \in Dims |-> -p[d]]),
                                 readoutResolution \div 2)

\* C16: once the 2N-1 slabs of a round (B, G) are claimed, every point x with
\* B < max |x[i]| <= G lies in one of them or is the negation of a point of
\* one of them; and a point has grid code zero iff its negation has.  In
\* every interleaving each claim writes the rectangle of its place in the
\* slab sequence, and the rectangles of each round of the sequence cover the
\* shell of the round up to negation.
C16_ShellCoverage ==
  [][/\ AntipodalSymmetry
     /\ ExpectedSlabsCover
     /\ ClaimStep =>
          /\ Claimed.x0 = ExpectedSlab(Len(claimLog')).x0
          /\ Claimed.dims = ExpectedSlab(Len(claimLog')).dims]_vars

\* C16's case: a round is complete and a point of its shell with a negative
\* last coordinate is in no slab of the round, its negation is
C16_Witness ==
  /\ Len(claimLog) >= SlabsPerRound
  /\ Covered(SlabsOfRound(0), 0)
  /\ \E x \in Shell(SlabsOfRound(0), 0) :
       /\ x[NumDims - 1] < 0
       /\ \A slab \in SlabsOfRound(0) : ~InSlab(x, slab)
       /\ \E slab \in SlabsOfRound(0) : InSlab([d \in Dims |-> -x[d]], slab)


\* the workers that called recordResult
Recorders == { recordLog[k].thread : k \in 1 .. Len(recordLog) }

\* C17: in every step of every interleaving, continueExpansion is true as
\* long as no recordResult call was made (so in the initial state) and false
\* ever after; once it is false no claimNextTask call is made, so that
\* baselineRadius, expansionRadiusGoal, expansionProgress, expandingDim and
\* positiveExpand change no more; and a worker that found a witness claims
\* no further slab.
C17_ContinueExpansionLatch ==
  [][/\ continueExpansion <=> recordLog = << >>
     /\ continueExpansion' <=> recordLog' = << >>
     /\ ~continueExpansion =>
          /\ ~continueExpansion'
          /\ UNCHANGED << baselineRadius, expansionRadiusGoal,
                          expansionProgress, expandingDim, positiveExpand,
                          claimLog, claimIndex >>
     /\ \A t \in Threads :
          foundGridCodeZero[t] \/ t \in Recorders =>
            claimIndex'[t] = claimIndex[t]]_vars

\* C17's case: one worker recorded a witness, the other one came back from a
\* slab without witness and left without claiming, slabs being left to claim
C17_Witness ==
  /\ ~continueExpansion
  /\ Len(recordLog) = 1
  /\ Len(claimLog) < MaxClaims
  /\ \A t \in Threads : threadPc[t] = "done"
  /\ ~Interrupted


\* this step is a call of recordResult by worker t
RecordStep(t) ==
  /\ Len(recordLog') = Len(recordLog) + 1
  /\ recordLog'[Len(recordLog')].thread = t

\* C18: a worker whose threadShouldContinue is false changes neither
\* foundPointBaselineRadius nor pointWithGridCodeZero, whether its search had
\* found a witness before the flag was cleared or not, and whether
\* recordResult or the interrupt path cleared the flag.
C18_ClearedWorkerRecordsNothing ==
  [][\A t \in Threads :
       ~threadShouldContinue[t] /\ RecordStep(t) =>
         UNCHANGED << foundPointBaselineRadius, pointWithGridCodeZero >>]_vars


\* the scheduler has left the loop of lines 740-800
LeftWaitLoop == schedPc \in {"afterLoop", "copying", "returned", "thrown"}

\* C20: whenever computeGridUniquenessHypercube has left its wait loop, to
\* return or to throw, numActiveThreads is 0 and no worker is running; and
\* whenever the mutex is free numActiveThreads is the number of workers
\* whose threadRunning is true.
C20_NoEndWhileWorkersRun ==
  /\ LeftWaitLoop =>
       /\ numActiveThreads = 0
       /\ \A t \in Threads : ~threadRunning[t]
  /\ numActiveThreads = Cardinality({ t \in Threads : threadRunning[t] })


\* C21: for ignoredCenterDiameter > 0, in every state in which the mutex is
\* free, 0 < baselineRadius < expansionRadiusGoal, expandingDim < N,
\* expansionProgress[i] is expansionRadiusGoal for every axis i < expandingDim
\* and baselineRadius for every axis i >= expandingDim, and positiveExpand
\* is false only when expandingDim < N-1.
C21_ExpansionStateInvariant ==
  /\ 0 < baselineRadius
  /\ baselineRadius < expansionRadiusGoal
  /\ expandingDim \in Dims
  /\ \A i \in Dims :
       expansionProgress[i] =
         IF i < expandingDim THEN expansionRadiusGoal ELSE baselineRadius
  /\ ~positiveExpand => expandingDim < NumDims - 1


\* the largest coordinate of the point, in absolute value
MaxNorm(w) == SetMax({ Abs(w[d]) : d \in Dims })

\* the goal the scheduler pairs with a baseline
GoalOf(baseline) ==
  IF baseline = IgnoredCenterDiameter THEN 2 * baseline
  ELSE NextGoal(baseline)

\* C22: whenever computeGridUniquenessHypercube returns normally with radius
\* R and witness w after a witness was recorded, w belongs to a slab that was
\* claimed under baseline R, so R <= max_i |w[i]| <= G where G is the goal
\* paired with R (2*R in the first round, 1.01*R afterwards), and
\* w[N-1] >= 0.
C22_WitnessJustOutside ==
  (schedPc = "returned" /\ returned[1] < DBL_MAX) =>
    /\ \E k \in 1 .. Len(claimLog) :
         /\ claimLog[k].baseline = returned[1]
         /\ claimLog[k].goal = GoalOf(returned[1])
         /\ InSlab(returned[2], claimLog[k])
    /\ returned[1] <= MaxNorm(returned[2])
    /\ MaxNorm(returned[2]) <= GoalOf(returned[1])
    /\ returned[2][NumDims - 1] >= 0


=============================================================================
